---- MODULE Spec2Model ----
(***************************************************************************)
(* Model of src/src/utils.py: ensure_life_frac, degradation_indicators and *)
(* rank_sensors_by_degradation over a pandas telemetry table.              *)
(*                                                                         *)
(* A float64 is modelled as a record [k, n, d]: k = "fin" with the exact   *)
(* rational n/d in lowest terms (d > 0), k = "inf" with sign n, or         *)
(* k = "nan".  Sums, products and quotients of the small values used here  *)
(* are exact; the two irrational functions (sqrt for the standard          *)
(* deviation, log for the variance ratio) are rounded, see Sqrt and Log.   *)
(***************************************************************************)
EXTENDS Integers, Sequences, FiniteSets

\* columns: df.columns, in order; table: the rows of df; call: the call being
\* made (its name and arguments); result: its outcome
VARIABLES columns, table, call, result

vars == <<columns, table, call, result>>

-----------------------------------------------------------------------------
(* float64 values *)

NaN == [k |-> "nan", n |-> 0, d |-> 1]

PosInf == [k |-> "inf", n |-> 1, d |-> 1]

NegInf == [k |-> "inf", n |-> -1, d |-> 1]

AbsInt(i) == IF i < 0 THEN -i ELSE i

SignInt(i) == IF i < 0 THEN -1 ELSE IF i > 0 THEN 1 ELSE 0

RECURSIVE GCD(_, _)
GCD(a, b) == IF b = 0 THEN a ELSE GCD(b, a % b)

\* the rational n/d (d # 0) in lowest terms with a positive denominator
Fin(n, d) ==
    LET g == GCD(AbsInt(n), AbsInt(d))
        s == SignInt(d)
    IN  [k |-> "fin", n |-> (s * n) \div g, d |-> (s * d) \div g]

Int2F(i) == [k |-> "fin", n |-> i, d |-> 1]

Zero == Int2F(0)

IsNaN(a) == a.k = "nan"

IsInf(a) == a.k = "inf"

\* np.isfinite
IsFinite(a) == a.k = "fin"

\* sign of a non-NaN value
Sign(a) == SignInt(a.n)

Neg(a) == [a EXCEPT !.n = -a.n]

\* np.abs / abs(): NaN stays NaN
Abs(a) == [a EXCEPT !.n = AbsInt(a.n)]

\* IEEE addition: inf + (-inf) is NaN
Add(a, b) ==
    IF IsNaN(a) \/ IsNaN(b) THEN NaN
    ELSE IF IsInf(a) /\ IsInf(b) THEN (IF a.n = b.n THEN a ELSE NaN)
    ELSE IF IsInf(a) THEN a
    ELSE IF IsInf(b) THEN b
    ELSE Fin(a.n * b.d + b.n * a.d, a.d * b.d)

Sub(a, b) == Add(a, Neg(b))

\* IEEE multiplication: 0 * inf is NaN
Mul(a, b) ==
    IF IsNaN(a) \/ IsNaN(b) THEN NaN
    ELSE IF IsInf(a) \/ IsInf(b)
         THEN (IF Sign(a) * Sign(b) = 0 THEN NaN
               ELSE IF Sign(a) * Sign(b) > 0 THEN PosInf ELSE NegInf)
    ELSE Fin(a.n * b.n, a.d * b.d)

\* IEEE division as numpy/pandas perform it: x/0 is +-inf, 0/0 and inf/inf are NaN
Div(a, b) ==
    IF IsNaN(a) \/ IsNaN(b) THEN NaN
    ELSE IF IsInf(a) /\ IsInf(b) THEN NaN
    ELSE IF IsInf(a) THEN (IF Sign(a) * (IF Sign(b) < 0 THEN -1 ELSE 1) > 0 THEN PosInf ELSE NegInf)
    ELSE IF IsInf(b) THEN Zero
    ELSE IF b.n = 0
         THEN (IF a.n = 0 THEN NaN ELSE IF a.n > 0 THEN PosInf ELSE NegInf)
    ELSE Fin(a.n * b.d, a.d * b.n)

\* a <= b on floats: any comparison with NaN is false
Leq(a, b) ==
    IF IsNaN(a) \/ IsNaN(b) THEN FALSE
    ELSE IF IsInf(a) THEN (a.n < 0 \/ (IsInf(b) /\ b.n > 0))
    ELSE IF IsInf(b) THEN b.n > 0
    ELSE a.n * b.d <= b.n * a.d

Geq(a, b) == Leq(b, a)

\* a > b on floats
Gt(a, b) == Leq(b, a) /\ ~Leq(a, b)

-----------------------------------------------------------------------------
(* the irrational functions, rounded *)

RECURSIVE ISqrtBetween(_, _, _)
\* the largest r in lo..hi with r*r <= m (lo*lo <= m)
ISqrtBetween(m, lo, hi) ==
    IF lo >= hi THEN lo
    ELSE LET mid == (lo + hi + 1) \div 2
         IN  IF mid * mid <= m THEN ISqrtBetween(m, mid, hi)
             ELSE ISqrtBetween(m, lo, mid - 1)

\* ceiling of the square root of the natural number m
CeilSqrt(m) ==
    LET r == ISqrtBetween(m, 0, IF m < 40000 THEN m ELSE 40000)
    IN  IF r * r = m THEN r ELSE r + 1

\* ceiling of the quotient of naturals m / d
CeilDiv(m, d) == (m + d - 1) \div d

\* np.sqrt inside Series.std: exact on 0, inf and NaN, rounded up to the next
\* multiple of 1/100 otherwise (the square root of a positive float is
\* positive)
Sqrt(a) ==
    IF IsNaN(a) THEN NaN
    ELSE IF IsInf(a) THEN (IF a.n > 0 THEN PosInf ELSE NaN)
    ELSE IF a.n < 0 THEN NaN
    ELSE Fin(CeilSqrt(CeilDiv(a.n * 10000, a.d)), 100)

\* np.log on a finite positive argument, by the first term of
\* log a = 2 artanh((a-1)/(a+1)): same sign as log a, 0 exactly at a = 1
Log(a) == Div(Mul(Int2F(2), Sub(a, Int2F(1))), Add(a, Int2F(1)))

-----------------------------------------------------------------------------
(* reductions over sequences of floats *)

RECURSIVE SumTo(_, _)
SumTo(xs, i) == IF i = 0 THEN Zero ELSE Add(SumTo(xs, i - 1), xs[i])

Sum(xs) == SumTo(xs, Len(xs))

NotNaN(xs) == SelectSeq(xs, LAMBDA v : ~IsNaN(v))

\* Series.mean(): skips missing values, NaN on an empty series
SeriesMean(xs) ==
    LET v == NotNaN(xs)
    IN  IF Len(v) = 0 THEN NaN ELSE Div(Sum(v), Int2F(Len(v)))

\* Series.var(ddof=1): skips missing values, NaN with fewer than two values
SeriesVar(xs) ==
    LET v   == NotNaN(xs)
        avg == Div(Sum(v), Int2F(Len(v)))
        sq  == [i \in 1..Len(v) |-> Mul(Sub(avg, v[i]), Sub(avg, v[i]))]
    IN  IF Len(v) < 2 THEN NaN ELSE Div(Sum(sq), Int2F(Len(v) - 1))

\* Series.std(ddof=1)
SeriesStd(xs) == Sqrt(SeriesVar(xs))

\* np.nanmean: drops the NaN entries only; NaN when nothing is left
NanMean(xs) ==
    LET v == NotNaN(xs)
    IN  IF Len(v) = 0 THEN NaN ELSE Div(Sum(v), Int2F(Len(v)))

AbsAll(xs) == [i \in 1..Len(xs) |-> Abs(xs[i])]

\* int(np.sum(np.isfinite(xs)))
CountFinite(xs) == Len(SelectSeq(xs, LAMBDA v : IsFinite(v)))

AllFinite(xs) == \A i \in 1..Len(xs) : IsFinite(xs[i])

\* what lstsq does, in a given numpy/LAPACK build, with a system that holds a
\* non-finite number: it raises LinAlgError ("SVD did not converge") or
\* returns NaN coefficients
LapackOutcomes ==
    {[raised |-> TRUE, slope |-> NaN], [raised |-> FALSE, slope |-> NaN]}

\* stands in the slopes list for "the outcome of lstsq on a non-finite
\* system" until the build's outcome is applied (ApplyLapack)
LapackResult == [k |-> "lapack", n |-> 0, d |-> 1]

\* np.polyfit(x, y, 1)[0] on non-empty x, y without NaN.  np.polyfit scales
\* the columns [x, 1] by their norms and calls lstsq:
\*  - a non-finite entry, or x all zero (norm 0, column 0/0), hands a
\*    non-finite system to LAPACK, whose outcome is the build's;
\*  - x constant c # 0 is rank deficient: the minimum-norm solution of the
\*    scaled system has slope mean(y)/(2c);
\*  - otherwise the least-squares slope.
PolyfitSlope(x, y) ==
    LET n   == Len(x)
        sx  == Sum(x)
        sy  == Sum(y)
        sxx == Sum([i \in 1..n |-> Mul(x[i], x[i])])
        sxy == Sum([i \in 1..n |-> Mul(x[i], y[i])])
        den == Sub(Mul(Int2F(n), sxx), Mul(sx, sx))
    IN  IF ~AllFinite(x) \/ ~AllFinite(y) \/ sxx = Zero
        THEN LapackResult
        ELSE IF den = Zero
        THEN Div(sy, Mul(Int2F(2 * n), x[1]))
        ELSE Div(Sub(Mul(Int2F(n), sxy), Mul(sx, sy)), den)

-----------------------------------------------------------------------------
(* the table: a sequence of rows, each a function from the column names   *)
(* (the range of columns, which keeps the order of df.columns) to values  *)

Range(f) == {f[i] : i \in DOMAIN f}

HasColumn(cols, c) == c \in Range(cols)

Column(df, c) == [i \in 1..Len(df) |-> df[i][c]]

RECURSIVE UniqueTo(_, _)
\* the distinct entries of xs[1..i] in order of first appearance
UniqueTo(xs, i) ==
    IF i = 0 THEN << >>
    ELSE LET u == UniqueTo(xs, i - 1)
         IN  IF xs[i] \in Range(u) THEN u ELSE Append(u, xs[i])

\* the group keys of df.groupby(engine_col, sort=False), in iteration order
GroupKeys(df) == UniqueTo(Column(df, "engine_id"), Len(df))

\* one group of df.groupby(engine_col): the engine's rows in table order
Group(df, e) == SelectSeq(df, LAMBDA r : r["engine_id"] = e)

\* max of a non-empty group's cycles as groupby(...).transform("max") takes
\* it: missing cycles are skipped, NaN when all are missing
RECURSIVE CycleMaxTo(_, _)
CycleMaxTo(cs, i) ==
    IF i = 0 THEN NaN
    ELSE LET m == CycleMaxTo(cs, i - 1)
         IN  IF IsNaN(cs[i]) THEN m
             ELSE IF IsNaN(m) \/ Gt(cs[i], m) THEN cs[i] ELSE m

GroupMaxCycle(df, e) ==
    LET cs == Column(Group(df, e), "cycle") IN CycleMaxTo(cs, Len(cs))

\* EnsureLifeFrac without the check for an existing out_col: the column is
\* computed and assigned whether it is there or not
EnsureLifeFracAlways(cols, df) ==
    [columns |-> IF HasColumn(cols, "life_frac") THEN cols ELSE Append(cols, "life_frac"),
     table |-> [i \in 1..Len(df) |->
                   [c \in Range(cols) \cup {"life_frac"} |->
                       IF c = "life_frac"
                       THEN Div(df[i]["cycle"], GroupMaxCycle(df, df[i]["engine_id"]))
                       ELSE df[i][c]]]]

\* EnsureLifeFrac dividing by the maximum cycle of the whole table
\* (df[cycle_col].max()) instead of the engine's
EnsureLifeFracFleetMax(cols, df) ==
    IF HasColumn(cols, "life_frac")
    THEN [columns |-> cols, table |-> df]
    ELSE [columns |-> Append(cols, "life_frac"),
          table |-> [i \in 1..Len(df) |->
                        [c \in Range(cols) \cup {"life_frac"} |->
                            IF c = "life_frac"
                            THEN Div(df[i]["cycle"],
                                     CycleMaxTo(Column(df, "cycle"), Len(df)))
                            ELSE df[i][c]]]]

\* ensure_life_frac: the table and its columns after the call.  The
\* DataFrame is changed in place and returned, so the returned table is the
\* table itself.
EnsureLifeFrac(cols, df) ==
    IF HasColumn(cols, "life_frac")
    THEN [columns |-> cols, table |-> df]
    ELSE [columns |-> Append(cols, "life_frac"),
          table |-> [i \in 1..Len(df) |->
                        [c \in Range(cols) \cup {"life_frac"} |->
                            IF c = "life_frac"
                            THEN Div(df[i]["cycle"], GroupMaxCycle(df, df[i]["engine_id"]))
                            ELSE df[i][c]]]]

-----------------------------------------------------------------------------
(* degradation_indicators *)

\* default early_frac = 0.20
EarlyFrac == Fin(1, 5)

\* default late_frac = 0.80
LateFrac == Fin(4, 5)

\* the hard-coded minimum size of the early and of the late window
MinWindowPoints == 5

\* outcome of a call that raised
Raised(op, err) ==
    [op |-> op, status |-> "raised", error |-> err, value |-> << >>, locals |-> << >>]

\* outcome of a call that returned
Returned(op, val, loc) ==
    [op |-> op, status |-> "returned", error |-> "", value |-> val, locals |-> loc]

\* g[[life_frac_col, sensor]].dropna()
DropNa(g, sensor) ==
    SelectSeq(g, LAMBDA r : ~IsNaN(r["life_frac"]) /\ ~IsNaN(r[sensor]))

\* g.loc[g[life_frac_col] <= early_frac, sensor]
EarlyVals(g, sensor) ==
    Column(SelectSeq(g, LAMBDA r : Leq(r["life_frac"], EarlyFrac)), sensor)

\* g.loc[g[life_frac_col] >= late_frac, sensor]
LateVals(g, sensor) ==
    Column(SelectSeq(g, LAMBDA r : Geq(r["life_frac"], LateFrac)), sensor)

\* the lists before the loop; shift_from, ratio_from and slope_from record
\* which engine appended each entry (they are not in the code)
EmptyLists ==
    [mean_shifts |-> << >>, var_ratios |-> << >>, slopes |-> << >>,
     shift_from |-> << >>, ratio_from |-> << >>, slope_from |-> << >>]

\* WindowGate with "or" for "and"
WindowGateEither(early_vals, late_vals) ==
    Len(early_vals) >= MinWindowPoints \/ Len(late_vals) >= MinWindowPoints

\* the window gate: both windows hold at least MinWindowPoints values
WindowGate(early_vals, late_vals) ==
    Len(early_vals) >= MinWindowPoints /\ Len(late_vals) >= MinWindowPoints

\* the variance gate of the ratio
VarianceGate(v_early, v_late) ==
    IsFinite(v_early) /\ Gt(v_early, Zero) /\ IsFinite(v_late)

\* the slope gate: enough valid rows over the whole life
SlopeGate(g, min_points_for_slope) == Len(g) >= min_points_for_slope

\* EngineStep with the slope fitted inside the window gate
EngineStepNested(acc, df, e, sensor, min_points_for_slope) ==
    LET g          == DropNa(Group(df, e), sensor)
        early_vals == EarlyVals(g, sensor)
        late_vals  == LateVals(g, sensor)
        gate       == WindowGate(early_vals, late_vals)
        v_early    == SeriesVar(early_vals)
        v_late     == SeriesVar(late_vals)
        vgate      == gate /\ VarianceGate(v_early, v_late)
        sgate      == gate /\ SlopeGate(g, min_points_for_slope)
    IN  IF Len(g) = 0 THEN acc
        ELSE [mean_shifts |->
                 IF gate
                 THEN Append(acc.mean_shifts, Sub(SeriesMean(late_vals), SeriesMean(early_vals)))
                 ELSE acc.mean_shifts,
              shift_from |-> IF gate THEN Append(acc.shift_from, e) ELSE acc.shift_from,
              var_ratios |->
                 IF vgate THEN Append(acc.var_ratios, Div(v_late, v_early))
                 ELSE acc.var_ratios,
              ratio_from |-> IF vgate THEN Append(acc.ratio_from, e) ELSE acc.ratio_from,
              slopes |->
                 IF sgate
                 THEN Append(acc.slopes, PolyfitSlope(Column(g, "life_frac"), Column(g, sensor)))
                 ELSE acc.slopes,
              slope_from |-> IF sgate THEN Append(acc.slope_from, e) ELSE acc.slope_from]

\* one iteration of the loop over the engines, for engine e
EngineStep(acc, df, e, sensor, min_points_for_slope) ==
    LET g          == DropNa(Group(df, e), sensor)
        early_vals == EarlyVals(g, sensor)
        late_vals  == LateVals(g, sensor)
        gate       == WindowGate(early_vals, late_vals)
        v_early    == SeriesVar(early_vals)
        v_late     == SeriesVar(late_vals)
        vgate      == gate /\ VarianceGate(v_early, v_late)
        sgate      == SlopeGate(g, min_points_for_slope)
    IN  IF Len(g) = 0 THEN acc
        ELSE [mean_shifts |->
                 IF gate
                 THEN Append(acc.mean_shifts, Sub(SeriesMean(late_vals), SeriesMean(early_vals)))
                 ELSE acc.mean_shifts,
              shift_from |-> IF gate THEN Append(acc.shift_from, e) ELSE acc.shift_from,
              var_ratios |->
                 IF vgate THEN Append(acc.var_ratios, Div(v_late, v_early))
                 ELSE acc.var_ratios,
              ratio_from |-> IF vgate THEN Append(acc.ratio_from, e) ELSE acc.ratio_from,
              slopes |->
                 IF sgate
                 THEN Append(acc.slopes, PolyfitSlope(Column(g, "life_frac"), Column(g, sensor)))
                 ELSE acc.slopes,
              slope_from |-> IF sgate THEN Append(acc.slope_from, e) ELSE acc.slope_from]

RECURSIVE EngineLoop(_, _, _, _, _)
\* the loop over the first i groups, in groupby order
EngineLoop(df, keys, i, sensor, min_points_for_slope) ==
    IF i = 0 THEN EmptyLists
    ELSE EngineStep(EngineLoop(df, keys, i - 1, sensor, min_points_for_slope),
                    df, keys[i], sensor, min_points_for_slope)

\* the lists once the build's lstsq outcome stands where polyfit met a
\* non-finite system
ApplyLapack(l, lapack) ==
    [l EXCEPT !.slopes =
        [i \in 1..Len(l.slopes) |->
            IF l.slopes[i] = LapackResult THEN lapack.slope ELSE l.slopes[i]]]

\* some iteration handed lstsq a non-finite system
MetLapack(l) == \E i \in 1..Len(l.slopes) : l.slopes[i] = LapackResult

\* polyfit raised LinAlgError in some iteration
LoopRaises(l, lapack) == lapack.raised /\ MetLapack(l)

\* the lstsq outcomes that make a difference to a call: all of them when a
\* loop met a non-finite system, one of them otherwise
Builds(ls) ==
    IF \E i \in 1..Len(ls) : ls[i] # << >> /\ MetLapack(ls[i])
    THEN LapackOutcomes ELSE {[raised |-> FALSE, slope |-> NaN]}

\* np.nanmean(xs) if xs else np.nan
FleetMean(xs) == IF Len(xs) > 0 THEN NanMean(xs) ELSE NaN

\* np.log(variance_ratio) when it is finite and > 0
LogVarianceRatio(variance_ratio) ==
    IF IsFinite(variance_ratio) /\ Gt(variance_ratio, Zero)
    THEN Log(variance_ratio) ELSE NaN

\* BaselineStd without the guard on the pooled standard deviation
BaselineStdUnguarded(df, sensor) == SeriesStd(EarlyVals(df, sensor))

\* the fleet-pooled early-life standard deviation, NaN unless finite and > 0
BaselineStd(df, sensor) ==
    LET std == SeriesStd(EarlyVals(df, sensor))
    IN  IF IsFinite(std) /\ Gt(std, Zero) THEN std ELSE NaN

\* x / baseline_std if np.isfinite(baseline_std) else np.nan
Normalised(x, baseline_std) ==
    IF IsFinite(baseline_std) THEN Div(x, baseline_std) ELSE NaN

\* int(np.sum(np.isfinite(xs))) if xs else 0
EnginesUsed(xs) == IF Len(xs) > 0 THEN CountFinite(xs) ELSE 0

\* the DegradationIndicators value built from the three lists
Indicators(df, sensor, l) ==
    LET mean_shift     == FleetMean(l.mean_shifts)
        abs_mean_shift == FleetMean(AbsAll(l.mean_shifts))
        variance_ratio == FleetMean(l.var_ratios)
        slope          == FleetMean(l.slopes)
        abs_slope      == FleetMean(AbsAll(l.slopes))
        baseline_std   == BaselineStd(df, sensor)
    IN  [sensor |-> sensor,
         mean_shift |-> mean_shift,
         abs_mean_shift |-> abs_mean_shift,
         variance_ratio |-> variance_ratio,
         log_variance_ratio |-> LogVarianceRatio(variance_ratio),
         slope |-> slope,
         abs_slope |-> abs_slope,
         baseline_std_early |-> baseline_std,
         mean_shift_std |-> Normalised(mean_shift, baseline_std),
         abs_mean_shift_std |-> Normalised(abs_mean_shift, baseline_std),
         slope_std |-> Normalised(slope, baseline_std),
         abs_slope_std |-> Normalised(abs_slope, baseline_std),
         n_engines_used_shift |-> EnginesUsed(l.mean_shifts),
         n_engines_used_slope |-> EnginesUsed(l.slopes)]

\* the two column checks at the head of degradation_indicators
MissingColumn(cols, sensor) ==
    ~HasColumn(cols, sensor) \/ ~HasColumn(cols, "life_frac")

\* a DegradationIndicators value with every field undefined
AllUndefined(sensor) ==
    [sensor |-> sensor, mean_shift |-> NaN, abs_mean_shift |-> NaN,
     variance_ratio |-> NaN, log_variance_ratio |-> NaN, slope |-> NaN,
     abs_slope |-> NaN, baseline_std_early |-> NaN, mean_shift_std |-> NaN,
     abs_mean_shift_std |-> NaN, slope_std |-> NaN, abs_slope_std |-> NaN,
     n_engines_used_shift |-> 0, n_engines_used_slope |-> 0]

\* DegradationIndicators that answers a missing column with an all-undefined
\* value instead of raising
DegradationIndicatorsSilent(cols, df, sensor, gathered, lapack) ==
    IF MissingColumn(cols, sensor)
    THEN Returned("degradation_indicators", AllUndefined(sensor), EmptyLists)
    ELSE IF LoopRaises(gathered, lapack)
    THEN Raised("degradation_indicators", "LinAlgError")
    ELSE LET l == ApplyLapack(gathered, lapack)
         IN  Returned("degradation_indicators", Indicators(df, sensor, l), l)

\* the lists of the loop, or << >> when a column check fails before it
Gather(cols, df, sensor, min_points_for_slope) ==
    IF MissingColumn(cols, sensor) THEN << >>
    ELSE LET keys == GroupKeys(df)
         IN  EngineLoop(df, keys, Len(keys), sensor, min_points_for_slope)

\* degradation_indicators(df, sensor, ...): its outcome, from the lists the
\* loop gathered and the build's lstsq
DegradationIndicators(cols, df, sensor, gathered, lapack) ==
    IF MissingColumn(cols, sensor) THEN Raised("degradation_indicators", "KeyError")
    ELSE IF LoopRaises(gathered, lapack)
    THEN Raised("degradation_indicators", "LinAlgError")
    ELSE LET l == ApplyLapack(gathered, lapack)
         IN  Returned("degradation_indicators", Indicators(df, sensor, l), l)

-----------------------------------------------------------------------------
(* rank_sensors_by_degradation *)

\* the columns the default sensors=None selects: c.startswith("sensor_")
StartsWithSensor(c) == c \in {"sensor_1", "sensor_2", "sensor_9"}

\* the sensors argument: None, or the names given
NoSensors == [given |-> FALSE, names |-> << >>]

Sensors(names) == [given |-> TRUE, names |-> names]

\* sensors as the loop sees them
SensorList(cols, sensors) ==
    IF ~sensors.given THEN SelectSeq(cols, StartsWithSensor) ELSE sensors.names

\* summary["log_variance_ratio"].clip(lower=0): NaN stays NaN
InstabilitySignal(log_variance_ratio) ==
    IF IsNaN(log_variance_ratio) THEN NaN
    ELSE IF Gt(Zero, log_variance_ratio) THEN Zero
    ELSE log_variance_ratio

\* FillNa0 that fills nothing
FillNaKeep(a) == a

\* Series.fillna(0)
FillNa0(a) == IF IsNaN(a) THEN Zero ELSE a

\* the composite score of one row
Score(ind) ==
    Add(Add(FillNa0(ind.abs_mean_shift_std), FillNa0(ind.abs_slope_std)),
        FillNa0(InstabilitySignal(ind.log_variance_ratio)))

\* one row of summary: the indicators, the two added columns and the row's
\* index label (its position in the sensors list)
SummaryRow(ind, i) ==
    [index |-> i, ind |-> ind,
     instability_signal |-> InstabilitySignal(ind.log_variance_ratio),
     score |-> Score(ind)]

\* "a sorts before or with b" under sort_values("score", ascending=False),
\* whose na_position is "last"
ScoreOrdered(a, b) == IsNaN(b) \/ (~IsNaN(a) /\ Geq(a, b))

Orderings(n) == {p \in [1..n -> 1..n] : \A i, j \in 1..n : p[i] = p[j] => i = j}

\* summary.sort_values("score", ascending=False): the default kind is
\* "quicksort", which is not stable, so every descending arrangement is a
\* possible outcome
SortValues(rows) ==
    {[i \in 1..Len(rows) |-> rows[p[i]]] : p \in
        {q \in Orderings(Len(rows)) :
            \A i, j \in 1..Len(rows) :
                i < j => ScoreOrdered(rows[q[i]].score, rows[q[j]].score)}}

RECURSIVE GatherAll(_, _, _, _, _)
\* what the loops of the calls for the first i sensors gather
GatherAll(cols, df, list, i, min_points_for_slope) ==
    IF i = 0 THEN << >>
    ELSE Append(GatherAll(cols, df, list, i - 1, min_points_for_slope),
                Gather(cols, df, list[i], min_points_for_slope))

RECURSIVE SummaryRows(_, _, _, _, _, _)
\* the loop over the first i sensors: the rows appended, unless a call raised
SummaryRows(cols, df, list, i, gathered, lapack) ==
    IF i = 0 THEN [raised |-> FALSE, error |-> "", rows |-> << >>]
    ELSE LET prev == SummaryRows(cols, df, list, i - 1, gathered, lapack)
             ind  == DegradationIndicators(cols, df, list[i], gathered[i], lapack)
         IN  IF prev.raised THEN prev
             ELSE IF ind.status = "raised"
             THEN [raised |-> TRUE, error |-> ind.error, rows |-> << >>]
             ELSE [raised |-> FALSE, error |-> "",
                   rows |-> Append(prev.rows, SummaryRow(ind.value, i))]

\* rank_sensors_by_degradation(df, sensors, ...): its possible outcomes.  A
\* per-sensor call that raises ends the call; with no sensor at all summary
\* has no column and the lookup of "log_variance_ratio" raises KeyError.
RankSensorsByDegradation(cols, df, list, gathered, lapack) ==
    LET summary == SummaryRows(cols, df, list, Len(list), gathered, lapack)
    IN  IF summary.raised
        THEN {Raised("rank_sensors_by_degradation", summary.error)}
        ELSE IF Len(list) = 0
        THEN {Raised("rank_sensors_by_degradation", "KeyError")}
        ELSE {Returned("rank_sensors_by_degradation", t, << >>) :
                 t \in SortValues(summary.rows)}

\* TableAfterRead with a dropna made in place on the table itself
TableAfterDropNa(df) == SelectSeq(df, LAMBDA r : ~IsNaN(r["sensor_1"]))

\* the table after degradation_indicators or rank_sensors_by_degradation:
\* both only read df (groupby, column selection, dropna and loc build new
\* objects)
TableAfterRead(df) == df

-----------------------------------------------------------------------------
(* the tables the calls are made on *)

\* largest number of rows an engine has in one window
MaxWin == 5

\* rows of engine 1 in a window: none, or around the window gate
Counts == {0} \cup {n \in 1..MaxWin : n >= MinWindowPoints - 1}

\* rows of engine 2 in each window
Counts2 == {0, MaxWin - 1, MaxWin}

Patterns == {"flat", "calm", "noisy", "gappy", "spike", "void"}

\* value of a sensor following pattern p in the i-th row of window w
PatternValue(p, w, i) ==
    CASE p = "flat"  -> Int2F(1)
      [] p = "drift" -> IF w = "early" THEN Int2F(i % 2) ELSE Int2F(2 + (i % 2))
      [] p = "calm"  -> IF w = "early" THEN Int2F(3 * (i % 2)) ELSE Int2F(i % 2)
      [] p = "noisy" -> IF w = "early" THEN Int2F(i % 2) ELSE Int2F(3 * (i % 2))
      [] p = "gappy" -> IF i = 1 THEN NaN
                        ELSE IF w = "early" THEN Int2F(i % 2) ELSE Int2F(3 * (i % 2))
      [] p = "spike" -> IF w = "late" /\ i = 1 THEN PosInf
                        ELSE IF w = "early" THEN Int2F(i % 2) ELSE Int2F(2 + (i % 2))
      [] p = "void"  -> NaN

\* <<cycle of the early rows, cycle of the late rows>>
CycleSchemes == {<<1, 5>>, <<0, 0>>, <<-1, 0>>, <<-5, -1>>, <<2, 5>>}

BaseColumns == <<"engine_id", "cycle", "setting_1", "sensor_1", "sensor_2">>

\* a table description: rows of engine 1 (ne1 early, nl1 late), rows of
\* engine 2 (n2 early, n2 late), the patterns of sensor_1 on the two engines,
\* sensor_2 (a "copy" of sensor_1 or a pattern), the cycles, and whether a
\* life_frac column (0 on early rows, 1 on late rows) is already there
Configs ==
    [ne1 : Counts, nl1 : Counts, n2 : Counts2, p1 : Patterns,
     p2 : {"flat", "noisy", "spike"},
     s2 : {"copy", "flat"}, cyc : {<<1, 5>>}, preset : {FALSE}]
    \cup
    [ne1 : Counts, nl1 : Counts, n2 : Counts2, p1 : {"drift"}, p2 : {"noisy"},
     s2 : {"drift"}, cyc : CycleSchemes, preset : BOOLEAN]

ConfigRow(cfg, e, w, i) ==
    LET cycle == IF w = "early" THEN cfg.cyc[1] ELSE cfg.cyc[2]
        s1    == PatternValue(IF e = 1 THEN cfg.p1 ELSE cfg.p2, w, i)
        s2    == IF cfg.s2 = "copy" THEN s1 ELSE PatternValue(cfg.s2, w, i)
    IN  [c \in Range(BaseColumns) \cup (IF cfg.preset THEN {"life_frac"} ELSE {}) |->
            CASE c = "engine_id" -> e
              [] c = "cycle"     -> Int2F(cycle)
              [] c = "setting_1" -> Zero
              [] c = "sensor_1"  -> s1
              [] c = "sensor_2"  -> s2
              [] c = "life_frac" -> IF w = "early" THEN Zero ELSE Int2F(1)]

\* the rows in table order: the early rows of engine 1 and of engine 2, then
\* the late rows of engine 1 and of engine 2
ConfigTable(cfg) ==
    [i \in 1..cfg.ne1 |-> ConfigRow(cfg, 1, "early", i)]
    \o [i \in 1..cfg.n2 |-> ConfigRow(cfg, 2, "early", i)]
    \o [i \in 1..cfg.nl1 |-> ConfigRow(cfg, 1, "late", i)]
    \o [i \in 1..cfg.n2 |-> ConfigRow(cfg, 2, "late", i)]

ConfigColumns(cfg) ==
    IF cfg.preset THEN Append(BaseColumns, "life_frac") ELSE BaseColumns

\* the sensor argument of degradation_indicators
SensorArgs == {"sensor_1", "sensor_2", "sensor_9"}

\* the sensors argument of rank_sensors_by_degradation
SensorsArgs ==
    {NoSensors, Sensors(<<"sensor_2", "sensor_1">>),
     Sensors(<<"sensor_1", "sensor_9">>), Sensors(<< >>)}

\* the min_points_for_slope argument (20 is the default)
MinPointsArgs == {8, 20}

\* no call is being made
Idle == [op |-> "none", sensors |-> << >>, min_points_for_slope |-> 0]

Calling(op, sensors, mp) == [op |-> op, sensors |-> sensors, min_points_for_slope |-> mp]

NoCall == [op |-> "none", status |-> "none", error |-> "", value |-> << >>, locals |-> << >>]

-----------------------------------------------------------------------------
(* the state machine: a table, and the calls made on it.  The module is   *)
(* synchronous: one call is made at a time, on the table the loader or an   *)
(* earlier ensure_life_frac left, with early_frac and late_frac at their    *)
(* defaults.                                                                *)

Init ==
    \E cfg \in Configs :
        /\ columns = ConfigColumns(cfg)
        /\ table = ConfigTable(cfg)
        /\ call = Idle
        /\ result = NoCall

\* df = ensure_life_frac(df)
CallEnsureLifeFrac ==
    LET out == EnsureLifeFrac(columns, table)
    IN  /\ call = Idle
        /\ call' = Calling("ensure_life_frac", << >>, 0)
        /\ columns' = out.columns
        /\ table' = out.table
        /\ result' = Returned("ensure_life_frac",
                              [was_present |-> HasColumn(columns, "life_frac")], << >>)

\* degradation_indicators(df, sensor, min_points_for_slope=mp)
CallDegradationIndicators ==
    /\ call = Idle
    /\ \E sensor \in SensorArgs, mp \in MinPointsArgs :
         LET gathered == Gather(columns, table, sensor, mp)
         IN  \E lapack \in Builds(<<gathered>>) :
               /\ call' = Calling("degradation_indicators", <<sensor>>, mp)
               /\ result' = DegradationIndicators(columns, table, sensor, gathered, lapack)
               /\ table' = TableAfterRead(table)
               /\ UNCHANGED columns

\* rank_sensors_by_degradation(df, sensors, min_points_for_slope=mp)
CallRankSensors ==
    /\ call = Idle
    /\ \E sensors \in SensorsArgs, mp \in MinPointsArgs :
         LET list     == SensorList(columns, sensors)
             gathered == GatherAll(columns, table, list, Len(list), mp)
         IN  \E lapack \in Builds(gathered) :
               \E out \in RankSensorsByDegradation(columns, table, list, gathered, lapack) :
                 /\ call' = Calling("rank_sensors_by_degradation", list, mp)
                 /\ result' = out
                 /\ table' = TableAfterRead(table)
                 /\ UNCHANGED columns

\* the caller takes the outcome of the call; the next call can be made
TakeResult ==
    /\ call # Idle
    /\ call' = Idle
    /\ result' = NoCall
    /\ UNCHANGED <<columns, table>>

Next == CallEnsureLifeFrac \/ CallDegradationIndicators \/ CallRankSensors \/ TakeResult

Spec == Init /\ [][Next]_vars

-----------------------------------------------------------------------------
(* what the claims speak of, read off the table independently of the loop *)

IndicatorsReturned ==
    call.op = "degradation_indicators" /\ result.status = "returned"

\* the sensor argument of the degradation_indicators call being made
TheSensor == call.sensors[1]

EngineIds == {table[i]["engine_id"] : i \in 1..Len(table)}

RowsOf(e) == {i \in 1..Len(table) : table[i]["engine_id"] = e}

\* the engine's rows with both life_frac and the sensor value present
ValidRowsOf(e, sensor) ==
    {i \in RowsOf(e) : ~IsNaN(table[i]["life_frac"]) /\ ~IsNaN(table[i][sensor])}

EarlyWindowOf(e, sensor) ==
    {i \in ValidRowsOf(e, sensor) : Leq(table[i]["life_frac"], EarlyFrac)}

LateWindowOf(e, sensor) ==
    {i \in ValidRowsOf(e, sensor) : Geq(table[i]["life_frac"], LateFrac)}

WindowsFull(e, sensor) ==
    /\ Cardinality(EarlyWindowOf(e, sensor)) >= 5
    /\ Cardinality(LateWindowOf(e, sensor)) >= 5

-----------------------------------------------------------------------------
(* C1 *)

\* C1: an engine whose early or late window has fewer than 5 points adds no
\* entry to the mean-shift list and none to the variance-ratio list, and
\* n_engines_used_shift never exceeds the number of engines whose two windows
\* both have at least 5 points.
C1_WindowGating ==
    IndicatorsReturned =>
        LET l == result.locals
        IN  /\ Len(l.mean_shifts) = Len(l.shift_from)
            /\ Len(l.var_ratios) = Len(l.ratio_from)
            /\ \A e \in EngineIds :
                 ~WindowsFull(e, TheSensor) =>
                     e \notin Range(l.shift_from) /\ e \notin Range(l.ratio_from)
            /\ result.value.n_engines_used_shift
                 <= Cardinality({e \in EngineIds : WindowsFull(e, TheSensor)})

\* a returned call where one engine falls one point short in a window that the
\* other engine fills, and the other engine is the one counted
C1_Witness ==
    /\ IndicatorsReturned
    /\ result.value.n_engines_used_shift = 1
    /\ \E e \in EngineIds :
         /\ Cardinality(EarlyWindowOf(e, TheSensor)) = 4
         /\ Cardinality(LateWindowOf(e, TheSensor)) >= 5
         /\ e \notin Range(result.locals.shift_from)

-----------------------------------------------------------------------------
(* C2 *)

\* the fleet-pooled early-life sample standard deviation of the sensor: over
\* all rows of the table with life_frac <= early_frac
PooledEarlyStd ==
    SeriesStd(Column(SelectSeq(table, LAMBDA r : Leq(r["life_frac"], EarlyFrac)),
                     TheSensor))

\* C2: whenever the pooled early-life standard deviation is 0, negative or
\* non-finite, baseline_std_early and the four normalised fields are undefined.
C2_BaselineSafety ==
    IndicatorsReturned =>
        LET v == result.value
        IN  ~(IsFinite(PooledEarlyStd) /\ Gt(PooledEarlyStd, Zero)) =>
                /\ IsNaN(v.baseline_std_early)
                /\ IsNaN(v.mean_shift_std)
                /\ IsNaN(v.abs_mean_shift_std)
                /\ IsNaN(v.slope_std)
                /\ IsNaN(v.abs_slope_std)

\* a returned call with a pooled deviation of 0 and defined shift and slope,
\* which a division would have turned into infinities or NaN
C2_Witness ==
    /\ IndicatorsReturned
    /\ PooledEarlyStd = Zero
    /\ IsFinite(result.value.abs_mean_shift)
    /\ IsFinite(result.value.abs_slope)
    /\ IsNaN(result.value.abs_mean_shift_std)
    /\ IsNaN(result.value.abs_slope_std)

-----------------------------------------------------------------------------
(* C3 *)

RankReturned ==
    call.op = "rank_sensors_by_degradation" /\ result.status = "returned"

\* C3: the returned table is the stable descending sort by score: a row that
\* appears before another has a score at least as large, and rows with equal
\* scores appear in the order of the sensors argument.
C3_StableDescending ==
    RankReturned =>
        \A i, j \in 1..Len(result.value) :
            i < j =>
                /\ Geq(result.value[i].score, result.value[j].score)
                /\ result.value[i].score = result.value[j].score
                     => result.value[i].index < result.value[j].index

-----------------------------------------------------------------------------
(* C4 *)

\* C4: a call of ensure_life_frac that finds out_col present (as the second of
\* two calls does) returns the table with no column, value or row order
\* changed, so two calls yield what one call yields.
C4_Idempotent ==
    [][(call.op = "none" /\ call'.op = "ensure_life_frac"
            /\ HasColumn(columns, "life_frac"))
        => (table' = table /\ columns' = columns)]_vars

\* ensure_life_frac has returned from a call that found out_col present
C4_Witness ==
    /\ call.op = "ensure_life_frac"
    /\ result.status = "returned"
    /\ result.value.was_present

-----------------------------------------------------------------------------
(* C5 *)

\* the largest cycle among the rows of engine e
MaxCycleOf(e) ==
    CHOOSE m \in {table[i]["cycle"] : i \in RowsOf(e)} :
        \A i \in RowsOf(e) : Leq(table[i]["cycle"], m)

\* every row's life_frac is its cycle divided by the maximum cycle of its
\* engine; where that maximum is > 0 the row that has it is at 1 and no row of
\* the engine is above 1
LifeFracIsCycleOverMax ==
    \A i \in 1..Len(table) :
        LET m  == MaxCycleOf(table[i]["engine_id"])
            lf == table[i]["life_frac"]
        IN  /\ lf = Div(table[i]["cycle"], m)
            /\ Gt(m, Zero) =>
                 /\ table[i]["cycle"] = m => lf = Int2F(1)
                 /\ Leq(lf, Int2F(1))

\* C5 as stated: after ensure_life_frac returns, every row's life_frac is its
\* cycle divided by the maximum cycle of its engine.
C5_AfterAnyCall ==
    (call.op = "ensure_life_frac" /\ result.status = "returned")
        => LifeFracIsCycleOverMax

\* C5 amended: after ensure_life_frac returns from a call that found out_col
\* absent, every row's life_frac is its cycle divided by the maximum cycle of
\* its engine (1.0 on the row of an engine's maximum cycle when that is > 0,
\* and never above 1 for such an engine).
C5_AfterComputing ==
    (call.op = "ensure_life_frac" /\ result.status = "returned"
        /\ ~result.value.was_present)
        => LifeFracIsCycleOverMax

\* the column has been computed for two engines of different lifetimes, one
\* of them with rows below and at the end of life
C5_Witness ==
    /\ call.op = "ensure_life_frac"
    /\ result.status = "returned"
    /\ ~result.value.was_present
    /\ \E e1, e2 \in EngineIds :
         /\ Gt(MaxCycleOf(e1), MaxCycleOf(e2))
         /\ Gt(MaxCycleOf(e2), Zero)
         /\ \E i, j \in RowsOf(e1) :
              /\ table[i]["life_frac"] = Int2F(1)
              /\ Gt(Int2F(1), table[j]["life_frac"])

-----------------------------------------------------------------------------
(* C6 *)

\* C6: degradation_indicators raises, and returns nothing, whenever the named
\* sensor column or the life_frac column is absent, and
\* rank_sensors_by_degradation called with such a sensor raises instead of
\* returning a table.
C6_MissingColumn ==
    /\ (call.op = "degradation_indicators"
          /\ (~HasColumn(columns, TheSensor) \/ ~HasColumn(columns, "life_frac")))
        => (result.status = "raised" /\ result.error = "KeyError")
    /\ (call.op = "rank_sensors_by_degradation"
          /\ \E i \in 1..Len(call.sensors) :
                ~HasColumn(columns, call.sensors[i]) \/ ~HasColumn(columns, "life_frac"))
        => result.status = "raised"

\* degradation_indicators has raised for an absent sensor on a table that has
\* life_frac and rows
C6_Witness ==
    /\ call.op = "degradation_indicators"
    /\ ~HasColumn(columns, TheSensor)
    /\ HasColumn(columns, "life_frac")
    /\ Len(table) > 0
    /\ result.status = "raised"
    /\ result.error = "KeyError"

-----------------------------------------------------------------------------
(* C7 *)

\* an undefined term counts as 0
OrZero(a) == IF IsNaN(a) THEN Zero ELSE a

\* C7: in every row of the ranking table instability_signal is
\* max(log_variance_ratio, 0) when log_variance_ratio is defined and undefined
\* otherwise; score is abs_mean_shift_std + abs_slope_std + instability_signal
\* with each undefined term replaced by 0, so it is always defined, and 0 when
\* the three terms are undefined.
C7_Score ==
    RankReturned =>
        \A i \in 1..Len(result.value) :
            LET row == result.value[i]
                lvr == row.ind.log_variance_ratio
            IN  /\ IsNaN(lvr) => IsNaN(row.instability_signal)
                /\ ~IsNaN(lvr) =>
                     row.instability_signal = (IF Gt(lvr, Zero) THEN lvr ELSE Zero)
                /\ ~IsNaN(row.score)
                /\ row.score = Add(Add(OrZero(row.ind.abs_mean_shift_std),
                                       OrZero(row.ind.abs_slope_std)),
                                   OrZero(row.instability_signal))
                /\ (IsNaN(row.ind.abs_mean_shift_std) /\ IsNaN(row.ind.abs_slope_std)
                      /\ IsNaN(row.instability_signal)) => row.score = Zero

\* a ranking with a row whose negative log_variance_ratio is clamped to 0 and
\* whose slope term is undefined, and a row whose three terms are undefined
C7_Witness ==
    /\ RankReturned
    /\ \E i \in 1..Len(result.value) :
         /\ Gt(Zero, result.value[i].ind.log_variance_ratio)
         /\ result.value[i].instability_signal = Zero
         /\ IsNaN(result.value[i].ind.abs_slope_std)
         /\ Gt(result.value[i].score, Zero)
    /\ \E i \in 1..Len(result.value) :
         /\ IsNaN(result.value[i].ind.abs_mean_shift_std)
         /\ IsNaN(result.value[i].ind.abs_slope_std)
         /\ IsNaN(result.value[i].instability_signal)
         /\ result.value[i].score = Zero

-----------------------------------------------------------------------------
(* C8 *)

\* the mean of the finite entries of xs, undefined when there is none
MeanOfFinite(xs) ==
    LET f == SelectSeq(xs, IsFinite)
    IN  IF Len(f) = 0 THEN NaN ELSE Div(Sum(f), Int2F(Len(f)))

\* C8: each fleet aggregate is the mean of only the finite entries of its
\* per-engine list (NaN and infinite entries are ignored) and is undefined when
\* the list is empty; log_variance_ratio is defined only when variance_ratio
\* is finite and > 0.
C8_MeansOverFinite ==
    IndicatorsReturned =>
        LET v == result.value
            l == result.locals
        IN  /\ v.mean_shift = MeanOfFinite(l.mean_shifts)
            /\ v.abs_mean_shift = MeanOfFinite(AbsAll(l.mean_shifts))
            /\ v.variance_ratio = MeanOfFinite(l.var_ratios)
            /\ v.slope = MeanOfFinite(l.slopes)
            /\ v.abs_slope = MeanOfFinite(AbsAll(l.slopes))
            /\ ~IsNaN(v.log_variance_ratio)
                 => (IsFinite(v.variance_ratio) /\ Gt(v.variance_ratio, Zero))

-----------------------------------------------------------------------------
(* C9 *)

\* C9: degradation_indicators and rank_sensors_by_degradation leave the table
\* as it was, whether they return or raise; the table changes only in a call
\* of ensure_life_frac that finds out_col absent, and only by that column
\* being added.
C9_NoMutation ==
    [][/\ (call.op = "none"
             /\ call'.op \in {"degradation_indicators", "rank_sensors_by_degradation"})
          => (table' = table /\ columns' = columns)
       /\ (table' # table \/ columns' # columns)
          => /\ call'.op = "ensure_life_frac"
             /\ ~HasColumn(columns, "life_frac")
             /\ columns' = Append(columns, "life_frac")
             /\ Len(table') = Len(table)
             /\ \A i \in 1..Len(table) : \A c \in Range(columns) :
                    table'[i][c] = table[i][c]]_vars

\* a ranking has been returned for a table that holds a missing sensor value
C9_Witness ==
    /\ RankReturned
    /\ \E i \in 1..Len(table) : IsNaN(table[i]["sensor_1"])

-----------------------------------------------------------------------------
(* C10 *)

\* C10: an engine adds a slope entry if and only if it has at least
\* min_points_for_slope rows with life_frac and the sensor value present,
\* whatever the sizes of its windows; an engine with no valid row or too few is
\* skipped and keeps no other engine from adding its mean shift or its slope.
C10_SlopeGate ==
    IndicatorsReturned =>
        LET l == result.locals
        IN  /\ Len(l.slopes) = Len(l.slope_from)
            /\ Cardinality(Range(l.slope_from)) = Len(l.slope_from)
            /\ \A e \in EngineIds :
                 /\ e \in Range(l.slope_from)
                      <=> Cardinality(ValidRowsOf(e, TheSensor)) >= call.min_points_for_slope
                 /\ e \in Range(l.shift_from) <=> WindowsFull(e, TheSensor)

\* an engine with rows but no valid row has been skipped, and another engine
\* whose windows are too small has added a slope
C10_Witness ==
    /\ IndicatorsReturned
    /\ \E e1, e2 \in EngineIds :
         /\ ValidRowsOf(e1, TheSensor) = {}
         /\ ~WindowsFull(e2, TheSensor)
         /\ e2 \in Range(result.locals.slope_from)
         /\ Len(result.locals.mean_shifts) = 0

====
